---- MODULE Spec2Model ----
(***************************************************************************)
(* Model of motoinat.py: the command-line front end (main) and the         *)
(* resolver (find_inaturalist_observation with its helpers                 *)
(* _fetch_inat_data and _format_and_print_observation).                    *)
(*                                                                         *)
(* Strings that the program inspects character by character (the MO-number *)
(* tokens and the content of the input file) are sequences of one-         *)
(* character strings.  Printed lines are records holding the format        *)
(* string of the print call and the values interpolated into it.           *)
(*                                                                         *)
(* The runs are those without --debug: the logging.debug lines of          *)
(* _fetch_inat_data are not part of stderr here.                           *)
(***************************************************************************)
EXTENDS Integers, Sequences, FiniteSets, TLC

VARIABLES
    argv_numbers,   \* args.mo_numbers as parsed from the command line
    file_arg,       \* args.file and what open()/iteration of that file does
    url_only,       \* args.url
    number_only,    \* args.q
    api,            \* the responses the iNaturalist API can give in this run
    pc,             \* position of the process
    mo_numbers,     \* main's list mo_numbers
    idx,            \* position of main's final for loop in mo_numbers
    mo_number,      \* argument of the running find_inaturalist_observation
    cand,           \* number of mo_urls the resolver's for loop has consumed
    queries,        \* mo_url of every requests.get of the running call
    responses,      \* what the API answered to each of these requests
    calls,          \* arguments of every call of find_inaturalist_observation
    stdout,         \* lines printed on sys.stdout
    stderr,         \* lines written to sys.stderr (print and logging)
    exit_code       \* exit status of the process, NoExit while it runs

vars == <<argv_numbers, file_arg, url_only, number_only, api, pc, mo_numbers,
          idx, mo_number, cand, queries, responses, calls, stdout, stderr,
          exit_code>>

inputs == <<argv_numbers, file_arg, url_only, number_only, api>>

(***************************************************************************)
(* Bounds of the explored input space.                                     *)
(***************************************************************************)
MaxArgs == 2        \* positional arguments on the command line
MaxFileLen == 3     \* characters of the input file

NoExit == 0 - 1

(***************************************************************************)
(* Characters.  "sup2" stands for U+00B2 SUPERSCRIPT TWO, a character for  *)
(* which str.isdigit() is true although it is not a decimal digit.         *)
(***************************************************************************)
AsciiDigits == {"1", "2"}
Whitespace == {" ", "\t", "\n"}

IsSpace(c) == c \in Whitespace

\* str.isdigit() on one character
IsDigitChar(c) == c \in AsciiDigits \cup {"sup2"}

\* str.isdigit(): true iff the string is non-empty and all characters are digits
isdigit(s) == Len(s) > 0 /\ \A i \in 1..Len(s) : IsDigitChar(s[i])

RECURSIVE lstrip(_)
lstrip(s) == IF s # <<>> /\ IsSpace(Head(s)) THEN lstrip(Tail(s)) ELSE s

RECURSIVE rstrip(_)
rstrip(s) ==
    IF s # <<>> /\ IsSpace(s[Len(s)]) THEN rstrip(SubSeq(s, 1, Len(s) - 1)) ELSE s

\* str.strip() with no argument: removes leading and trailing whitespace
strip(s) == rstrip(lstrip(s))

(***************************************************************************)
(* Splitting a text at separator characters, stated by positions: the      *)
(* pieces are the stretches between two consecutive separators.            *)
(***************************************************************************)
Breaks(text, seps) ==
    {0} \cup {i \in 1..Len(text) : text[i] \in seps} \cup {Len(text) + 1}

\* the k-th smallest element of a finite set of integers
Kth(S, k) == CHOOSE x \in S : Cardinality({y \in S : y < x}) = k - 1

Pieces(text, seps) ==
    LET B == Breaks(text, seps)
    IN  [k \in 1..(Cardinality(B) - 1) |->
            SubSeq(text, Kth(B, k) + 1, Kth(B, k + 1) - 1)]

\* the text without its leading and trailing whitespace, by positions
Trimmed(text) ==
    LET inked == {i \in 1..Len(text) : text[i] \notin Whitespace}
    IN  IF inked = {} THEN <<>>
        ELSE SubSeq(text, CHOOSE i \in inked : \A j \in inked : i <= j,
                          CHOOSE i \in inked : \A j \in inked : i >= j)

NonEmpty(text) == text # <<>>

\* the maximal runs of non-whitespace characters of the content
WhitespaceTokens(content) == SelectSeq(Pieces(content, Whitespace), NonEmpty)

\* the trimmed, non-empty lines of the content
LineTokens(content) ==
    LET lines == Pieces(content, {"\n"})
    IN  SelectSeq([k \in 1..Len(lines) |-> Trimmed(lines[k])], NonEmpty)

\* Iterating a text file: the lines of the content, each with its newline
RECURSIVE readlines(_)
readlines(content) ==
    IF content = <<>> THEN <<>>
    ELSE LET nl == {i \in 1..Len(content) : content[i] = "\n"}
         IN  IF nl = {} THEN <<content>>
             ELSE LET n == CHOOSE i \in nl : \A j \in nl : i <= j
                  IN  <<SubSeq(content, 1, n)>>
                        \o readlines(SubSeq(content, n + 1, Len(content)))

\* main, lines 114-117: the stripped, non-empty lines of the file
RECURSIVE StrippedLines(_)
StrippedLines(lines) ==
    IF lines = <<>> THEN <<>>
    ELSE LET stripped_line == strip(Head(lines))
         IN  (IF stripped_line # <<>> THEN <<stripped_line>> ELSE <<>>)
               \o StrippedLines(Tail(lines))

FileTokens(content) == StrippedLines(readlines(content))

(***************************************************************************)
(* Data of the resolver.                                                   *)
(***************************************************************************)
\* A JSON member of an observation record: the key is missing, its value is
\* null, or it has a value.
Missing == <<"missing", "">>
Null == <<"null", "">>
Str(s) == <<"val", s>>

MissingId == <<"missing", 0>>
Id(n) == <<"val", n>>

\* find_inaturalist_observation, lines 66-73: the candidate URLs, in order
mo_urls(mo) ==
    << [base |-> "http://mushroomobserver.org/observer/show_observation/", mo |-> mo],
       [base |-> "https://mushroomobserver.org/observer/show_observation/", mo |-> mo],
       [base |-> "http://mushroomobserver.org/", mo |-> mo],
       [base |-> "https://mushroomobserver.org/", mo |-> mo],
       [base |-> "http://mushroomobserver.org/obs/", mo |-> mo],
       [base |-> "https://mushroomobserver.org/obs/", mo |-> mo] >>

NoUrl == [base |-> "", mo |-> <<>>]
NoInatUrl == [base |-> "", id |-> 0]

\* A printed or logged line: the format string and the interpolated values
Line(fmt) ==
    [fmt |-> fmt, mo |-> <<>>, id |-> 0, inat_url |-> NoInatUrl, text |-> "",
     url |-> NoUrl]

\* Observation records the API can return
Guesses(text) == {Missing, Null, Str(text)}

Observations ==
    [id : {Id(7)}, species_guess : Guesses("Amanita muscaria"),
     place_guess : Guesses("California, USA")]

SecondObservation ==
    [id |-> Id(8), species_guess |-> Str("Boletus edulis"),
     place_guess |-> Str("Oregon, USA")]

IdlessObservation ==
    [id |-> MissingId, species_guess |-> Str("Amanita muscaria"),
     place_guess |-> Str("California, USA")]

\* A decoded JSON body: the keys it has among those the resolver reads
Json(keys, total, results) ==
    [keys |-> keys, total_results |-> total, results |-> results]

NoData == Json({}, 0, <<>>)

Ok(data) == [outcome |-> "OK", data |-> data]

\* requests.get raises, raise_for_status raises, response.json() raises (the
\* decoding error is taken by the json.JSONDecodeError clause, line 43)
TransportError == [outcome |-> "ConnectionError", data |-> NoData]
BadStatus == [outcome |-> "HTTPError", data |-> NoData]
NotJson == [outcome |-> "NotJSON", data |-> NoData]

EmptyObject == Ok(NoData)
ZeroResults == Ok(Json({"total_results", "results"}, 0, <<>>))
NoTotalResults == Ok(Json({"results"}, 0, <<>>))
PositiveNoResultsKey == Ok(Json({"total_results"}, 1, <<>>))
PositiveEmptyResults == Ok(Json({"total_results", "results"}, 1, <<>>))
PositiveIdless == Ok(Json({"total_results", "results"}, 1, <<IdlessObservation>>))

OneResult == {Ok(Json({"total_results", "results"}, 1, <<o>>)) : o \in Observations}
TwoResults ==
    {Ok(Json({"total_results", "results"}, 2, <<SecondObservation, o>>)) :
        o \in {x \in Observations : x.species_guess = Null /\ x.place_guess = Null}}

FailedResponses == {TransportError, BadStatus, NotJson}
MalformedResponses ==
    {NoTotalResults, PositiveNoResultsKey, PositiveEmptyResults, PositiveIdless}
Responses ==
    FailedResponses \cup {EmptyObject, ZeroResults} \cup MalformedResponses
        \cup OneResult \cup TwoResults

(***************************************************************************)
(* _fetch_inat_data, lines 17-45.                                          *)
(***************************************************************************)
\* TRUE iff the helper returns None (one of its except clauses ran)
fetch_returns_None(r) == r.outcome # "OK"

\* a helper that logs failed requests only when the server answered
fetch_warnings_status_only(mo_url, r) ==
    IF r.outcome = "HTTPError"
    THEN << [Line("WARNING: Network error while contacting iNaturalist API for URL {mo_url_to_check}: {e}")
               EXCEPT !.url = mo_url, !.text = r.outcome] >>
    ELSE <<>>

\* the lines the helper logs with logging.warning
fetch_warnings(mo_url, r) ==
    IF r.outcome \in {"ConnectionError", "HTTPError"}
    THEN << [Line("WARNING: Network error while contacting iNaturalist API for URL {mo_url_to_check}: {e}")
               EXCEPT !.url = mo_url, !.text = r.outcome] >>
    ELSE IF r.outcome = "NotJSON"
    THEN << [Line("WARNING: Error decoding JSON response from iNaturalist API for URL {mo_url_to_check}: {e}")
               EXCEPT !.url = mo_url, !.text = r.outcome] >>
    ELSE <<>>

(***************************************************************************)
(* find_inaturalist_observation, lines 83-84: the test of the response and *)
(* the evaluation of data['results'][0] and obs_item['id'].                *)
(***************************************************************************)
\* bool(data): None and the empty dict are false
truthy(r) == ~fetch_returns_None(r) /\ r.data.keys # {}

\* the exception that lines 83, 84 and 49 raise on this response, "" if none
Raised(r) ==
    IF ~truthy(r) THEN ""
    ELSE IF "total_results" \notin r.data.keys THEN "KeyError"
    ELSE IF ~(r.data.total_results > 0) THEN ""
    ELSE IF "results" \notin r.data.keys THEN "KeyError"
    ELSE IF r.data.results = <<>> THEN "IndexError"
    ELSE IF r.data.results[1].id[1] = "missing" THEN "KeyError"
    ELSE ""

\* line 83: the condition of the if, where it evaluates without raising
is_match(r) == truthy(r) /\ Raised(r) = "" /\ r.data.total_results > 0

\* the last record of the list instead of the first
last_result(data) == data.results[Len(data.results)]

\* line 84: data['results'][0]
first_result(data) == data.results[1]

(***************************************************************************)
(* _format_and_print_observation, lines 48-62.                             *)
(***************************************************************************)
\* dict.get(key, default)
get(member, default) == IF member[1] = "missing" THEN Str(default) ELSE member

\* str() of a value interpolated into an f-string
format(member) == IF member[1] = "null" THEN "None" ELSE member[2]

inat_url(obs_item) ==
    [base |-> "https://www.inaturalist.org/observations/", id |-> obs_item.id[2]]

\* the two single-line modes tested in the other order
format_url_first(mo, obs_item, matched_mo_url, url_only_flag, number_only_flag) ==
    IF url_only_flag
    THEN << [Line("{inat_url}") EXCEPT !.inat_url = inat_url(obs_item)] >>
    ELSE IF number_only_flag
    THEN << [Line("{id}") EXCEPT !.id = obs_item.id[2]] >>
    ELSE << [Line("Mushroom Observer #{mo_number}:") EXCEPT !.mo = mo],
            [Line("  iNaturalist Observation: {inat_url}")
               EXCEPT !.inat_url = inat_url(obs_item)],
            [Line("  Species: {species_guess}")
               EXCEPT !.text = format(get(obs_item.species_guess, "N/A"))],
            [Line("  Location: {place_guess}")
               EXCEPT !.text = format(get(obs_item.place_guess, "N/A"))],
            [Line("  Matched URL: {matched_mo_url}") EXCEPT !.url = matched_mo_url],
            Line("") >>

format_and_print_observation(mo, obs_item, matched_mo_url, url_only_flag, number_only_flag) ==
    IF number_only_flag
    THEN << [Line("{id}") EXCEPT !.id = obs_item.id[2]] >>
    ELSE IF url_only_flag
    THEN << [Line("{inat_url}") EXCEPT !.inat_url = inat_url(obs_item)] >>
    ELSE LET species_guess == get(obs_item.species_guess, "N/A")
             place_guess == get(obs_item.place_guess, "N/A")
         IN  << [Line("Mushroom Observer #{mo_number}:") EXCEPT !.mo = mo],
                [Line("  iNaturalist Observation: {inat_url}")
                   EXCEPT !.inat_url = inat_url(obs_item)],
                [Line("  Species: {species_guess}") EXCEPT !.text = format(species_guess)],
                [Line("  Location: {place_guess}") EXCEPT !.text = format(place_guess)],
                [Line("  Matched URL: {matched_mo_url}") EXCEPT !.url = matched_mo_url],
                Line("") >>

\* find_inaturalist_observation, lines 88-93
print_not_found(mo, url_only_flag, number_only_flag) ==
    IF url_only_flag \/ number_only_flag
    THEN << [Line("Mushroom Observer #{mo_number} has no iNaturalist observation associated with it.")
               EXCEPT !.mo = mo] >>
    ELSE << [Line("No iNaturalist observation found for Mushroom Observer #{mo_number}")
               EXCEPT !.mo = mo],
            Line("") >>

(***************************************************************************)
(* Inputs of a run.                                                        *)
(***************************************************************************)
RECURSIVE SeqsUpTo(_, _)
\* all sequences over S of length at most n
SeqsUpTo(S, n) ==
    IF n = 0 THEN {<<>>}
    ELSE LET shorter == SeqsUpTo(S, n - 1)
         IN  shorter \cup {Append(q, x) : q \in {t \in shorter : Len(t) = n - 1}, x \in S}

\* positional arguments: digits, surrounding and inner whitespace, letters,
\* the empty string, a blank string, a non-decimal digit
ArgTokens ==
    { <<"1">>, <<"1", "2">>, <<" ", "2", " ">>, <<"a">>, <<"1", "a">>, <<>>,
      <<" ">>, <<"sup2">>, <<"1", " ", "2">> }
FileChars == {"1", "a", " ", "\n"}

NoFile == [given |-> FALSE, error |-> "", content |-> <<>>]
ReadableFile(content) == [given |-> TRUE, error |-> "", content |-> content]
UnreadableFile(error) == [given |-> TRUE, error |-> error, content |-> <<>>]
FileErrors == {"FileNotFoundError", "PermissionError", "IOError"}

\* the API behaviours explored by the runs of the whole program
MainApi == {ZeroResults, NoTotalResults} \cup TwoResults

StartState ==
    /\ pc = "main"
    /\ mo_numbers = <<>>
    /\ idx = 0
    /\ mo_number = <<>>
    /\ cand = 0
    /\ queries = <<>>
    /\ responses = <<>>
    /\ calls = <<>>
    /\ stdout = <<>>
    /\ stderr = <<>>
    /\ exit_code = NoExit

\* one lookup of one number, every output mode, every behaviour of the API
InitResolver ==
    /\ argv_numbers = << <<"1", "2">> >>
    /\ file_arg = NoFile
    /\ url_only \in BOOLEAN
    /\ number_only \in BOOLEAN
    /\ api = Responses
    /\ StartState

\* the command lines: positional arguments, with or without a file
InitMain ==
    /\ argv_numbers \in SeqsUpTo(ArgTokens, MaxArgs)
    /\ file_arg \in {NoFile, ReadableFile(<<"2", "\n">>)}
                      \cup {UnreadableFile(e) : e \in FileErrors}
    /\ url_only = FALSE
    /\ number_only \in BOOLEAN
    /\ api = MainApi
    /\ StartState

\* the API behaviours explored by the runs of several lookups: zero results,
\* a transport error, bad bodies and a match
LookupsApi ==
    {ZeroResults, TransportError, NoTotalResults, PositiveEmptyResults} \cup TwoResults

\* several lookups in one run
InitLookups ==
    /\ argv_numbers \in SeqsUpTo({<<"1">>, <<"2">>}, MaxArgs)
    /\ file_arg = NoFile
    /\ url_only = FALSE
    /\ number_only \in BOOLEAN
    /\ api = LookupsApi
    /\ StartState

\* the input files
InitFile ==
    /\ argv_numbers \in {<<>>, << <<"2">> >>}
    /\ file_arg \in {ReadableFile(c) : c \in SeqsUpTo(FileChars, MaxFileLen)}
    /\ url_only \in BOOLEAN
    /\ number_only \in BOOLEAN
    /\ api = MainApi
    /\ StartState

(***************************************************************************)
(* main, lines 109-126: the positional arguments, then the file.           *)
(***************************************************************************)
file_error_message(error) ==
    IF error = "FileNotFoundError"
    THEN Line("Error reading file {args.file}: FileNotFoundError - File not found.")
    ELSE IF error = "PermissionError"
    THEN Line("Error reading file {args.file}: PermissionError - Permission denied.")
    ELSE Line("Error reading file {args.file}: IOError - {e}")

MainCollect ==
    /\ pc = "main"
    /\ IF file_arg.given /\ file_arg.error # ""
       THEN /\ stdout' = Append(stdout, file_error_message(file_arg.error))
            /\ exit_code' = 1
            /\ pc' = "exited"
            /\ UNCHANGED mo_numbers
       ELSE /\ mo_numbers' =
                  argv_numbers \o (IF file_arg.given THEN FileTokens(file_arg.content)
                                   ELSE <<>>)
            /\ pc' = "validate"
            /\ UNCHANGED <<stdout, exit_code>>
    /\ UNCHANGED <<inputs, idx, mo_number, cand, queries, responses, calls, stderr>>

(***************************************************************************)
(* main, lines 131-151: validation of the collected tokens.                *)
(***************************************************************************)
invalid_warning(processed_num_str) ==
    [Line("Warning: Invalid MO number '{processed_num_str}' provided. Skipping.")
       EXCEPT !.mo = processed_num_str]

RECURSIVE valid_mo_numbers(_)
valid_mo_numbers(nums) ==
    IF nums = <<>> THEN <<>>
    ELSE LET processed_num_str == strip(Head(nums))
         IN  (IF processed_num_str # <<>> /\ isdigit(processed_num_str)
              THEN <<processed_num_str>> ELSE <<>>)
               \o valid_mo_numbers(Tail(nums))

RECURSIVE warnings_for_empty_too(_)
\* a validation that also warns about tokens that are empty once stripped
warnings_for_empty_too(nums) ==
    IF nums = <<>> THEN <<>>
    ELSE LET processed_num_str == strip(Head(nums))
         IN  (IF ~isdigit(processed_num_str)
              THEN <<invalid_warning(processed_num_str)>> ELSE <<>>)
               \o warnings_for_empty_too(Tail(nums))

RECURSIVE validation_warnings(_)
validation_warnings(nums) ==
    IF nums = <<>> THEN <<>>
    ELSE LET processed_num_str == strip(Head(nums))
         IN  (IF processed_num_str # <<>> /\ ~isdigit(processed_num_str)
              THEN <<invalid_warning(processed_num_str)>> ELSE <<>>)
               \o validation_warnings(Tail(nums))

MainValidate ==
    /\ pc = "validate"
    /\ stderr' = stderr \o validation_warnings(mo_numbers)
    /\ mo_numbers' = valid_mo_numbers(mo_numbers)
    /\ IF valid_mo_numbers(mo_numbers) = <<>>
       THEN /\ stdout' = stdout \o
                  << Line("Error: No valid Mushroom Observer numbers provided."),
                     Line("Usage: python script.py [mo_numbers] [--file FILE] [--debug] [--url] [-q]") >>
            /\ exit_code' = 1
            /\ pc' = "exited"
            /\ UNCHANGED idx
       ELSE /\ idx' = 1
            /\ pc' = "loop"
            /\ UNCHANGED <<stdout, exit_code>>
    /\ UNCHANGED <<inputs, mo_number, cand, queries, responses, calls>>

(***************************************************************************)
(* main, lines 153-155: the loop over the valid numbers.                   *)
(***************************************************************************)
\* line 155: the call of find_inaturalist_observation for the next number
CallResolver ==
    /\ pc = "loop"
    /\ idx <= Len(mo_numbers)
    /\ mo_number' = mo_numbers[idx]
    /\ calls' = Append(calls, mo_numbers[idx])
    /\ cand' = 0
    /\ queries' = <<>>
    /\ responses' = <<>>
    /\ pc' = "resolver"
    /\ UNCHANGED <<inputs, mo_numbers, idx, stdout, stderr, exit_code>>

\* the loop is exhausted: main returns and the interpreter exits with 0
MainReturn ==
    /\ pc = "loop"
    /\ idx > Len(mo_numbers)
    /\ exit_code' = 0
    /\ pc' = "exited"
    /\ UNCHANGED <<inputs, mo_numbers, idx, mo_number, cand, queries, responses,
                   calls, stdout, stderr>>

(***************************************************************************)
(* find_inaturalist_observation, lines 75-85: one iteration of the loop    *)
(* over mo_urls, for each answer the API can give to the request.          *)
(***************************************************************************)
traceback(exception) ==
    [Line("Traceback (most recent call last): ...") EXCEPT !.text = exception]

TryCandidate ==
    /\ pc = "resolver"
    /\ cand < Len(mo_urls(mo_number))
    /\ \E r \in api :
         LET mo_url == mo_urls(mo_number)[cand + 1] IN
         /\ queries' = Append(queries, mo_url)
         /\ responses' = Append(responses, r)
         /\ cand' = cand + 1
         /\ IF Raised(r) # ""
            THEN \* the exception leaves the resolver and main: exit status 1
                 /\ stderr' = Append(stderr \o fetch_warnings(mo_url, r),
                                     traceback(Raised(r)))
                 /\ exit_code' = 1
                 /\ pc' = "exited"
                 /\ UNCHANGED <<stdout, idx>>
            ELSE IF is_match(r)
            THEN /\ stdout' = stdout \o
                       format_and_print_observation(mo_number, first_result(r.data),
                                                    mo_url, url_only, number_only)
                 /\ stderr' = stderr \o fetch_warnings(mo_url, r)
                 /\ idx' = idx + 1
                 /\ pc' = "loop"
                 /\ UNCHANGED exit_code
            ELSE /\ stderr' = stderr \o fetch_warnings(mo_url, r)
                 /\ UNCHANGED <<stdout, idx, exit_code, pc>>
    /\ UNCHANGED <<inputs, mo_numbers, mo_number, calls>>

\* lines 87-93: every candidate was tried without a match
ReportNotFound ==
    /\ pc = "resolver"
    /\ cand = Len(mo_urls(mo_number))
    /\ stdout' = stdout \o print_not_found(mo_number, url_only, number_only)
    /\ idx' = idx + 1
    /\ pc' = "loop"
    /\ UNCHANGED <<inputs, mo_numbers, mo_number, cand, queries, responses, calls,
                   stderr, exit_code>>

Next ==
    \/ MainCollect
    \/ MainValidate
    \/ CallResolver
    \/ TryCandidate
    \/ ReportNotFound
    \/ MainReturn

SpecResolver == InitResolver /\ [][Next]_vars
SpecMain == InitMain /\ [][Next]_vars
SpecFile == InitFile /\ [][Next]_vars

\* the process is sequential and every request returns or raises, so a step
\* that can be taken is taken
SpecLookups == InitLookups /\ [][Next]_vars /\ WF_vars(Next)

(***************************************************************************)
(* Properties of one call of find_inaturalist_observation.                 *)
(***************************************************************************)
Last(q) == q[Len(q)]

\* a call of the resolver was made and is over: it returned or it raised
CallEnded == calls # <<>> /\ pc \in {"loop", "exited"}

\* the call was left by an exception
CallRaised == calls # <<>> /\ pc = "exited" /\ exit_code = 1

\* the response is a JSON body that reports total_results > 0
PositiveTotal(r) ==
    /\ r.outcome = "OK"
    /\ "total_results" \in r.data.keys
    /\ r.data.total_results > 0

PositiveCandidates == {i \in 1..Len(responses) : PositiveTotal(responses[i])}

FirstPositive == CHOOSE i \in PositiveCandidates : \A j \in PositiveCandidates : i <= j

\* the queries issued so far are the first candidates, in the fixed order
QueriesArePrefix ==
    /\ Len(queries) <= 6
    /\ \A i \in 1..Len(queries) :
         queries[i] =
            [base |-> << "http://mushroomobserver.org/observer/show_observation/",
                         "https://mushroomobserver.org/observer/show_observation/",
                         "http://mushroomobserver.org/",
                         "https://mushroomobserver.org/",
                         "http://mushroomobserver.org/obs/",
                         "https://mushroomobserver.org/obs/" >>[i],
             mo |-> mo_number]

\* C1: the HTTP queries of one call are a prefix of the fixed candidate order
\* (one query per candidate, in order, none repeated), and a call in which no
\* candidate returned total_results > 0 has issued exactly six queries
C1_PrefixAndSixWithoutMatch ==
    /\ QueriesArePrefix
    /\ (CallEnded /\ PositiveCandidates = {}) => Len(queries) = 6

NotFoundFormats ==
    {"Mushroom Observer #{mo_number} has no iNaturalist observation associated with it.",
     "No iNaturalist observation found for Mushroom Observer #{mo_number}"}

MatchPrinted == stdout # <<>> /\ stdout[1].fmt \notin NotFoundFormats

\* the iNaturalist id that the printed match shows
PrintedId ==
    IF stdout[1].fmt = "{id}" THEN stdout[1].id
    ELSE IF stdout[1].fmt = "{inat_url}" THEN stdout[1].inat_url.id
    ELSE stdout[2].inat_url.id

\* C2: at most one response is accepted, that of the first candidate whose
\* total_results is positive; the printed match shows the first record of
\* that response and names that candidate, and no later candidate is queried
C2_FirstPositiveAccepted ==
    /\ Cardinality(PositiveCandidates) <= 1
    /\ PositiveCandidates # {} => Len(queries) = FirstPositive
    /\ MatchPrinted =>
         /\ PositiveCandidates # {}
         /\ PrintedId = responses[FirstPositive].data.results[1].id[2]
         /\ Len(stdout) > 1 => stdout[5].url = queries[FirstPositive]

C2_Witness ==
    /\ MatchPrinted
    /\ Len(stdout) > 1
    /\ Len(queries) = 3
    /\ Len(Last(responses).data.results) = 2
    /\ PrintedId = 8

\* C3: a transport failure, a non-2xx response or a malformed body counts as
\* no match for that candidate only: the lookup is not aborted, and a call
\* that saw no well-formed match ends with the not-found message
C3_FailuresAreNoMatch ==
    /\ (responses # <<>> /\ Last(responses) \in FailedResponses \cup MalformedResponses)
          => ~CallRaised
    /\ (CallEnded /\ \A i \in 1..Len(responses) : ~is_match(responses[i]))
          => (stdout # <<>> /\ stdout[1].fmt \in NotFoundFormats)

IsFetchWarning(line) ==
    line.fmt \in
      {"WARNING: Network error while contacting iNaturalist API for URL {mo_url_to_check}: {e}",
       "WARNING: Error decoding JSON response from iNaturalist API for URL {mo_url_to_check}: {e}"}

AllTransportErrors ==
    calls # <<>> /\ \A i \in 1..Len(responses) : responses[i].outcome = "ConnectionError"

\* C4: when every request raises a transport error the call completes: six
\* candidates are attempted, one warning is logged per failed candidate, and
\* the not-found result for the MO number is printed
C4_AllRequestsFail ==
    AllTransportErrors =>
        /\ ~CallRaised
        /\ Len(SelectSeq(stderr, IsFetchWarning)) = Len(responses)
        /\ \A i \in 1..Len(responses) : stderr[i].url = queries[i]
        /\ IF CallEnded
           THEN /\ Len(queries) = 6
                /\ stdout # <<>>
                /\ stdout[1].fmt \in NotFoundFormats
                /\ stdout[1].mo = mo_number
           ELSE stdout = <<>>

C4_Witness ==
    /\ AllTransportErrors
    /\ pc = "exited"
    /\ exit_code = 0
    /\ Len(SelectSeq(stderr, IsFetchWarning)) = 6

\* the call ended by printing a match / by exhausting the candidates
EndedWithMatch == CallEnded /\ ~CallRaised /\ is_match(Last(responses))
EndedWithoutMatch == CallEnded /\ ~CallRaised /\ ~is_match(Last(responses))

MatchedObservation == Last(responses).data.results[1]

InatUrlOf(obs) ==
    [base |-> "https://www.inaturalist.org/observations/", id |-> obs.id[2]]

\* C8: the standard output of one lookup is determined by the outcome and the
\* two flags: on a match -q prints the id alone (also when --url is set too),
\* --url prints the iNaturalist URL alone, and no flag prints the block; on no
\* match either flag prints the one-line message and no flag the default one
C8_OutputByMode ==
    /\ EndedWithMatch =>
         IF number_only
         THEN stdout = << [Line("{id}") EXCEPT !.id = MatchedObservation.id[2]] >>
         ELSE IF url_only
         THEN stdout = << [Line("{inat_url}")
                             EXCEPT !.inat_url = InatUrlOf(MatchedObservation)] >>
         ELSE /\ Len(stdout) = 6
              /\ stdout[1] = [Line("Mushroom Observer #{mo_number}:") EXCEPT !.mo = mo_number]
              /\ stdout[2] = [Line("  iNaturalist Observation: {inat_url}")
                                EXCEPT !.inat_url = InatUrlOf(MatchedObservation)]
              /\ stdout[3].fmt = "  Species: {species_guess}"
              /\ stdout[4].fmt = "  Location: {place_guess}"
              /\ stdout[5] = [Line("  Matched URL: {matched_mo_url}")
                                EXCEPT !.url = Last(queries)]
              /\ stdout[6] = Line("")
    /\ EndedWithoutMatch =>
         IF url_only \/ number_only
         THEN stdout =
                << [Line("Mushroom Observer #{mo_number} has no iNaturalist observation associated with it.")
                      EXCEPT !.mo = mo_number] >>
         ELSE stdout =
                << [Line("No iNaturalist observation found for Mushroom Observer #{mo_number}")
                      EXCEPT !.mo = mo_number],
                   Line("") >>

C8_Witness ==
    /\ EndedWithMatch
    /\ url_only
    /\ number_only
    /\ stdout = << [Line("{id}") EXCEPT !.id = 7] >>

\* the text the block must show for an optional member of the record
Shown(member) == IF member[1] = "val" THEN member[2] ELSE "N/A"

\* C9: in default mode the block shows N/A for species_guess (place_guess)
\* when the key is missing or its value is null, and the text otherwise
C9_PlaceholderWhenAbsent ==
    (EndedWithMatch /\ ~url_only /\ ~number_only) =>
        /\ stdout[3].text = Shown(MatchedObservation.species_guess)
        /\ stdout[4].text = Shown(MatchedObservation.place_guess)

(***************************************************************************)
(* Properties of main.                                                     *)
(***************************************************************************)
FileUnreadable == file_arg.given /\ file_arg.error # ""

\* the tokens supplied to the run: the positional ones, then those of the file
Supplied ==
    argv_numbers \o (IF file_arg.given THEN LineTokens(file_arg.content) ELSE <<>>)

SuppliedTrimmed == [i \in 1..Len(Supplied) |-> Trimmed(Supplied[i])]

\* the validation loop has run
Validated == pc \in {"loop", "resolver"} \/ (pc = "exited" /\ ~FileUnreadable)

JustValidated == pc = "loop" /\ calls = <<>>

IsPrefix(p, q) == Len(p) <= Len(q) /\ p = SubSeq(q, 1, Len(p))

\* a trimmed token that is non-empty and consists of decimal digits only
DecimalNumber(t) == t # <<>> /\ \A i \in 1..Len(t) : t[i] \in AsciiDigits

\* C5: the resolver is invoked exactly once per valid token, with the trimmed
\* token, in the order supplied (positional tokens, then file tokens), with
\* duplicates kept, and never for an invalid token
C5_OncePerValidToken ==
    ~FileUnreadable =>
        /\ IsPrefix(calls, SelectSeq(SuppliedTrimmed, DecimalNumber))
        /\ pc = "exited" => calls = SelectSeq(SuppliedTrimmed, DecimalNumber)

IsInvalidWarning(line) ==
    line.fmt = "Warning: Invalid MO number '{processed_num_str}' provided. Skipping."

WarnedTokens ==
    LET w == SelectSeq(stderr, IsInvalidWarning) IN [i \in 1..Len(w) |-> w[i].mo]

HasNonDigit(t) == \E i \in 1..Len(t) : ~IsDigitChar(t[i])

EmptyOrNonDigit(t) == t = <<>> \/ HasNonDigit(t)

AllDigits(t) == t # <<>> /\ ~HasNonDigit(t)

NoValidNumbersOutput ==
    << Line("Error: No valid Mushroom Observer numbers provided."),
       Line("Usage: python script.py [mo_numbers] [--file FILE] [--debug] [--url] [-q]") >>

C7_ExitStatus ==
    /\ (FileUnreadable \/ SelectSeq(SuppliedTrimmed, AllDigits) = <<>>)
          => (calls = <<>> /\ queries = <<>>)
    /\ pc = "exited" =>
          exit_code = (IF FileUnreadable \/ SelectSeq(SuppliedTrimmed, AllDigits) = <<>>
                       THEN 1 ELSE 0)

\* C10: the file is read as whitespace-separated numbers: every maximal run
\* of non-whitespace characters is one token
C10_WhitespaceSeparated ==
    pc = "validate" =>
        mo_numbers = argv_numbers \o WhitespaceTokens(file_arg.content)

HasInnerWhitespace(t) == \E i \in 1..Len(t) : t[i] \in Whitespace

\* C10 as amended: the file is read line by line: every line that is not
\* empty once trimmed is one token, so a line that holds several numbers
\* separated by spaces or tabs is one invalid token, which is warned about
\* and never passed to the resolver
C10_LineSeparated ==
    /\ pc = "validate" =>
          mo_numbers = argv_numbers \o LineTokens(file_arg.content)
    /\ \A i \in 1..Len(calls) : ~HasInnerWhitespace(calls[i])
    /\ Validated =>
          \A k \in 1..Len(LineTokens(file_arg.content)) :
             HasInnerWhitespace(LineTokens(file_arg.content)[k]) =>
                \E j \in 1..Len(WarnedTokens) :
                   WarnedTokens[j] = LineTokens(file_arg.content)[k]

C10_Witness ==
    /\ pc = "exited"
    /\ exit_code = 0
    /\ file_arg.content = <<"1", " ", "1">>
    /\ calls = << <<"2">> >>
    /\ WarnedTokens = << <<"1", " ", "1">> >>

(***************************************************************************)
(* Properties of the loop over the lookups.                                *)
(***************************************************************************)
\* the first line of a printed outcome: of a match (in each output mode) or
\* of a not-found message
IsOutcomeHead(line) ==
    line.fmt \in {"{id}", "{inat_url}", "Mushroom Observer #{mo_number}:"}
                    \cup NotFoundFormats

PrintedOutcomes == SelectSeq(stdout, IsOutcomeHead)

ValidTokens == SelectSeq(SuppliedTrimmed, AllDigits)

\* the outcomes printed so far are those of the first valid tokens, in order
OutcomesInOrder ==
    /\ Len(PrintedOutcomes) <= Len(ValidTokens)
    /\ \A i \in 1..Len(PrintedOutcomes) :
          PrintedOutcomes[i].fmt \in {"{id}", "{inat_url}"}
             \/ PrintedOutcomes[i].mo = ValidTokens[i]

\* C11: for every behaviour of the API the run prints exactly one outcome (a
\* match or a not-found message) for each valid token, in order: a run that
\* has ended has printed an outcome for every valid token, whatever the
\* lookups of the earlier tokens met
C11_OneOutcomePerToken ==
    ~FileUnreadable =>
        /\ OutcomesInOrder
        /\ pc = "exited" => Len(PrintedOutcomes) = Len(ValidTokens)

\* every run ends
Terminates == <>(pc = "exited")

\* a run in which no lookup raises prints one outcome per valid token
OneOutcomeUnlessRaised ==
    (~FileUnreadable /\ ~CallRaised) =>
        /\ OutcomesInOrder
        /\ pc = "exited" => Len(PrintedOutcomes) = Len(ValidTokens)

\* a run that has ended has called the resolver for every valid token
LaterLookupsTakePlace == (~FileUnreadable /\ pc = "exited") => calls = ValidTokens

====
